---- MODULE Spec2Model ----
(***************************************************************************)
(* Model of cmd/collect.go (gostats "collect" command): the Snapshot       *)
(* builder collectOnce, the root path resolver getRootPath and the         *)
(* single-shot / streaming loop of collectCmd.RunE.                        *)
(*                                                                         *)
(* Strings are sequences of one-character strings, so that the suffix test *)
(* and the concatenations of the code are computed.  Floating point values *)
(* are fixed-point integers in hundredths (Scale).  A nil pointer / empty  *)
(* slice is the empty sequence, a non-nil pointer the one-element sequence.*)
(***************************************************************************)
EXTENDS Integers, Sequences, FiniteSets, TLC

VARIABLES
    interval,   \* flag --interval (line 25); > 0 selects streaming
    count,      \* flag --count (line 26); rewritten at lines 160-162
    countFlag,  \* the value --count was given on the command line
    jsonOut,    \* flag --json (line 24)
    goos,       \* runtime.GOOS
    sysDrive,   \* os.Getenv("SystemDrive")
    pc,         \* position of RunE
    cancelled,  \* ctx.Done() is closed (signal.NotifyContext, line 141)
    tickReady,  \* a tick is buffered in t.C (capacity 1)
    ticks,      \* ticks delivered into t.C so far
    i,          \* loop counter i (line 170)
    snap,       \* local snap of collectOnce / RunE
    rets,       \* what each provider call of the current build returned
    builds,     \* calls of collectOnce so far
    out,        \* lines printed on stdout, by kind
    err,        \* value returned by RunE ("nil" or "error"), "running" before
    root,       \* local root of collectOnce (line 120), empty before it is set
    late,       \* probes of the build in progress called after ctx was cancelled
    rendered    \* the two renderings of snap, when both have been computed

vars == <<interval, count, countFlag, jsonOut, goos, sysDrive, pc, cancelled, tickReady,
          ticks, i, snap, rets, builds, out, err, root, late, rendered>>

----------------------------------------------------------------------------
(* Bounds *)

MaxCount == 2

MaxTicks == MaxCount + 1

Counts == -1 .. MaxCount

Intervals == {-1, 0, 1}

GoosValues == {"linux", "windows"}

DriveValues == { <<>>, <<"D", ":">>, <<"D", ":", "\\">> }

----------------------------------------------------------------------------
(* Program constants *)

MiB == 1024 * 1024

\* Disk sizes are counted in KiB so that the checker's 32-bit integers hold
\* them: 1024 * 1024 * 1024 bytes (lines 123-124) are 1024 * 1024 KiB.
GiB == 1024 * 1024

Scale == 100

Probes == <<"host", "cpu", "load", "mem", "disk", "net">>

ProbeSet == {Probes[k] : k \in 1..Len(Probes)}

Terminal == {"SingleShot", "Stopped", "Exhausted", "Failed"}

Building == ProbeSet

----------------------------------------------------------------------------
(* Strings *)

HasSuffix(s, suffix) ==
    /\ Len(s) >= Len(suffix)
    /\ SubSeq(s, Len(s) - Len(suffix) + 1, Len(s)) = suffix

----------------------------------------------------------------------------
(* Snapshot *)

ZeroSnapshot ==
    [ Timestamp |-> 0, Host |-> <<>>, OS |-> <<>>, UptimeSec |-> 0,
      CPUPercent |-> 0, Load1 |-> <<>>, Load5 |-> <<>>, Load15 |-> <<>>,
      MemUsedMB |-> 0, MemTotalMB |-> 0, MemUsedPct |-> 0,
      DiskPath |-> <<>>, DiskUsedGB |-> 0, DiskTotalGB |-> 0, DiskUsedPct |-> 0,
      NetBytesIn |-> 0, NetBytesOut |-> 0 ]

----------------------------------------------------------------------------
(* Presentation, lines 53-71 and the json tags of lines 30-50.  Timestamp  *)
(* is in seconds.  A line of the table is the sequence of its tab          *)
(* separated columns; a number column holds the number printed, in units   *)
(* of its last printed digit.                                              *)

\* fmt's %.<decimals>f of a value held in hundredths, 0 <= decimals <= 2
SprintfFixed(x, decimals) ==
    LET unit == IF decimals = 0 THEN 100 ELSE IF decimals = 1 THEN 10 ELSE 1
    IN  (x + unit \div 2) \div unit

\* Timestamp.Format("15:04:05"), line 63
FormatClock(t) == << (t \div 3600) % 24, (t \div 60) % 60, t % 60 >>

\* Variant of lines 67-68: the memory column repeats the disk percentage.
humanRow_DiskTwice(s) ==
    << FormatClock(s.Timestamp),
       SprintfFixed(s.CPUPercent, 1),
       IF s.Load1 # <<>> THEN [dash |-> FALSE, value |-> SprintfFixed(s.Load1[1], 2)]
                         ELSE [dash |-> TRUE, value |-> 0],
       << s.MemUsedMB, s.MemTotalMB >>,
       << >>,
       SprintfFixed(s.DiskUsedPct, 1),
       SprintfFixed(s.DiskUsedPct, 1),
       << s.NetBytesIn, s.NetBytesOut >>,
       s.Host >>

\* lines 57-71; the format has an empty column after the memory column
humanRow(s) ==
    << FormatClock(s.Timestamp),
       SprintfFixed(s.CPUPercent, 1),
       IF s.Load1 # <<>> THEN [dash |-> FALSE, value |-> SprintfFixed(s.Load1[1], 2)]
                         ELSE [dash |-> TRUE, value |-> 0],
       << s.MemUsedMB, s.MemTotalMB >>,
       << >>,
       SprintfFixed(s.MemUsedPct, 1),
       SprintfFixed(s.DiskUsedPct, 1),
       << s.NetBytesIn, s.NetBytesOut >>,
       s.Host >>

\* lines 53-55
humanHeader ==
    << "TIME", "CPU%", "Load1", "MEM_USED/TOTAL(MB)", "MEM%", "DISK%",
       "NET_IN/NET_OUT(B)", "HOST" >>

\* keys always present in the structured record, lines 30-50
JSONKeys ==
    { "ts", "host", "os", "uptime_sec", "cpu_percent", "mem_used_mb",
      "mem_total_mb", "mem_free_pct", "disk_path", "disk_used_gb",
      "disk_total_gb", "disk_used_pct", "net_bytes_in", "net_bytes_out" }

\* json.Marshal / Encoder.Encode of a Snapshot: every field under its tag,
\* numbers in full, the omitempty pointers left out when nil (lines 36-38)
StructuredRecord(s) ==
    LET keys == JSONKeys
                  \cup (IF s.Load1 # <<>> THEN {"load1"} ELSE {})
                  \cup (IF s.Load5 # <<>> THEN {"load5"} ELSE {})
                  \cup (IF s.Load15 # <<>> THEN {"load15"} ELSE {})
    IN  [ k \in keys |->
            CASE k = "ts"            -> << s.Timestamp >>
              [] k = "host"          -> s.Host
              [] k = "os"            -> s.OS
              [] k = "uptime_sec"    -> << s.UptimeSec >>
              [] k = "cpu_percent"   -> << s.CPUPercent >>
              [] k = "load1"         -> s.Load1
              [] k = "load5"         -> s.Load5
              [] k = "load15"        -> s.Load15
              [] k = "mem_used_mb"   -> << s.MemUsedMB >>
              [] k = "mem_total_mb"  -> << s.MemTotalMB >>
              [] k = "mem_free_pct"  -> << s.MemUsedPct >>
              [] k = "disk_path"     -> s.DiskPath
              [] k = "disk_used_gb"  -> << s.DiskUsedGB >>
              [] k = "disk_total_gb" -> << s.DiskTotalGB >>
              [] k = "disk_used_pct" -> << s.DiskUsedPct >>
              [] k = "net_bytes_in"  -> << s.NetBytesIn >>
              [] k = "net_bytes_out" -> << s.NetBytesOut >> ]

----------------------------------------------------------------------------
(* Metrics provider: the values a call can return.  err = TRUE is a non-nil *)
(* error; data is the returned pointer / slice (empty = nil / no element).  *)

NoCall == [called |-> FALSE, err |-> FALSE, data |-> <<>>]

Ret(e, d) == [called |-> TRUE, err |-> e, data |-> d]

HostReturns ==
    { Ret(TRUE, <<>>),
      Ret(FALSE, << [Hostname |-> <<"h", "1">>, OS |-> <<"l">>,
                     Platform |-> <<"u">>, Uptime |-> 7] >>) }

\* an error, an empty slice, a partial result together with an error, a value
CPUReturns ==
    { Ret(TRUE, <<>>), Ret(FALSE, <<>>), Ret(TRUE, <<1250>>), Ret(FALSE, <<1250>>) }

LoadReturns ==
    { Ret(TRUE, <<>>),
      Ret(FALSE, << [Load1 |-> 0, Load5 |-> 0, Load15 |-> 0] >>),
      Ret(FALSE, << [Load1 |-> 150, Load5 |-> 125, Load15 |-> 75] >>) }

MemReturns ==
    { Ret(TRUE, <<>>),
      Ret(FALSE, << [Used |-> 3 * MiB + 5, Total |-> 8 * MiB, UsedPercent |-> 3750] >>) }

DiskReturns ==
    { Ret(TRUE, <<>>),
      Ret(FALSE, << [Used |-> 2 * GiB + GiB \div 2, Total |-> 4 * GiB,
                     UsedPercent |-> 6250] >>) }

NetReturns ==
    { Ret(TRUE, <<>>),
      Ret(FALSE, << [BytesRecv |-> 11, BytesSent |-> 22] >>) }

----------------------------------------------------------------------------
(* getRootPath, lines 73-85 *)

\* Variant of lines 79-81: the separator is appended without the suffix test.
getRootPath_AlwaysAppend(os, drive) ==
    IF os = "windows"
    THEN LET drv  == IF drive = <<>> THEN <<"C", ":">> ELSE drive
         IN  drv \o <<"\\">>
    ELSE <<"/">>

getRootPath(os, drive) ==
    IF os = "windows"
    THEN LET drv  == IF drive = <<>> THEN <<"C", ":">> ELSE drive
         IN  IF ~HasSuffix(drv, <<"\\">>) THEN drv \o <<"\\">> ELSE drv
    ELSE <<"/">>

----------------------------------------------------------------------------
(* collectOnce, lines 87-135.  Each provider call is one step of the build; *)
(* the field assignments of the code follow the call in the same step.      *)

Now == ticks

\* lines 88-90
NewSnapshot == [ZeroSnapshot EXCEPT !.Timestamp = Now]

NoCalls == [p \in ProbeSet |-> NoCall]

\* lines 92-97: the error of host.InfoWithContext is discarded, hi decides
ApplyHost(s, r) ==
    IF r.data # <<>>
    THEN LET hi == r.data[1]
         IN  [s EXCEPT !.Host = hi.Hostname,
                       !.OS = hi.OS \o <<"/">> \o hi.Platform,
                       !.UptimeSec = hi.Uptime]
    ELSE s

\* lines 100-103
ApplyCPU(s, r) ==
    IF ~r.err /\ Len(r.data) > 0
    THEN [s EXCEPT !.CPUPercent = r.data[1]]
    ELSE s

\* lines 107-109
ApplyLoad(s, r) ==
    IF ~r.err /\ r.data # <<>>
    THEN LET l == r.data[1]
         IN  [s EXCEPT !.Load1 = <<l.Load1>>, !.Load5 = <<l.Load5>>,
                       !.Load15 = <<l.Load15>>]
    ELSE s

\* lines 113-117
ApplyMem(s, r) ==
    IF ~r.err /\ r.data # <<>>
    THEN LET vm == r.data[1]
         IN  [s EXCEPT !.MemUsedMB = vm.Used \div MiB,
                       !.MemTotalMB = vm.Total \div MiB,
                       !.MemUsedPct = vm.UsedPercent]
    ELSE s

\* Variant of lines 121-122: DiskPath is set before the result is examined.
ApplyDisk_PathFirst(s, r, path) ==
    LET t == [s EXCEPT !.DiskPath = path]
    IN  IF ~r.err /\ r.data # <<>>
        THEN LET du == r.data[1]
             IN  [t EXCEPT !.DiskUsedGB = (du.Used * Scale) \div GiB,
                           !.DiskTotalGB = (du.Total * Scale) \div GiB,
                           !.DiskUsedPct = du.UsedPercent]
        ELSE t

\* lines 120-126
ApplyDisk(s, r, path) ==
    IF ~r.err /\ r.data # <<>>
    THEN LET du == r.data[1]
         IN  [s EXCEPT !.DiskPath = path,
                       !.DiskUsedGB = (du.Used * Scale) \div GiB,
                       !.DiskTotalGB = (du.Total * Scale) \div GiB,
                       !.DiskUsedPct = du.UsedPercent]
    ELSE s

\* Variant of lines 129-132: a failed call gives up and starts over from an
\* empty Snapshot.
ApplyNet_Reset(s, r) ==
    IF ~r.err /\ Len(r.data) > 0
    THEN [s EXCEPT !.NetBytesIn = r.data[1].BytesRecv,
                   !.NetBytesOut = r.data[1].BytesSent]
    ELSE ZeroSnapshot

\* lines 129-132
ApplyNet(s, r) ==
    IF ~r.err /\ Len(r.data) > 0
    THEN [s EXCEPT !.NetBytesIn = r.data[1].BytesRecv,
                   !.NetBytesOut = r.data[1].BytesSent]
    ELSE s

\* Variant of line 106: load averages are asked for on every platform.
LoadSupported_Always(os) == TRUE

\* line 106: load averages are only asked for off windows
LoadSupported(os) == os # "windows"

\* line 134: the error collectOnce returns
collectOnceErr == "nil"

Frame == UNCHANGED <<interval, count, countFlag, jsonOut, goos, sysDrive, cancelled,
                     tickReady, ticks, i, builds, out, err, rendered>>

\* the provider call of probe p is made with ctx as it is at that moment
Called(p) == late' = IF cancelled THEN late \cup {p} ELSE late

ProbeHost ==
    /\ pc = "host"
    /\ \E r \in HostReturns :
         /\ snap' = ApplyHost(snap, r)
         /\ rets' = [rets EXCEPT !["host"] = r]
    /\ Called("host")
    /\ UNCHANGED root
    /\ pc' = "cpu"
    /\ Frame

ProbeCPU ==
    /\ pc = "cpu"
    /\ \E r \in CPUReturns :
         /\ snap' = ApplyCPU(snap, r)
         /\ rets' = [rets EXCEPT !["cpu"] = r]
    /\ Called("cpu")
    /\ UNCHANGED root
    /\ pc' = "load"
    /\ Frame

ProbeLoad ==
    /\ pc = "load"
    /\ IF LoadSupported(goos)
       THEN \E r \in LoadReturns :
              /\ snap' = ApplyLoad(snap, r)
              /\ rets' = [rets EXCEPT !["load"] = r]
              /\ Called("load")
       ELSE UNCHANGED <<snap, rets, late>>
    /\ UNCHANGED root
    /\ pc' = "mem"
    /\ Frame

\* Variant of lines 112-117: the build is given up once ctx is cancelled.
ProbeMem_AbortOnCancel ==
    /\ pc = "mem"
    /\ IF cancelled
       THEN /\ pc' = "render"
            /\ UNCHANGED <<snap, rets, late>>
       ELSE /\ \E r \in MemReturns :
                 /\ snap' = ApplyMem(snap, r)
                 /\ rets' = [rets EXCEPT !["mem"] = r]
            /\ Called("mem")
            /\ pc' = "disk"
    /\ UNCHANGED root
    /\ Frame

ProbeMem ==
    /\ pc = "mem"
    /\ \E r \in MemReturns :
         /\ snap' = ApplyMem(snap, r)
         /\ rets' = [rets EXCEPT !["mem"] = r]
    /\ Called("mem")
    /\ UNCHANGED root
    /\ pc' = "disk"
    /\ Frame

ProbeDisk ==
    /\ pc = "disk"
    /\ root' = getRootPath(goos, sysDrive)
    /\ \E r \in DiskReturns :
         /\ snap' = ApplyDisk(snap, r, root')
         /\ rets' = [rets EXCEPT !["disk"] = r]
    /\ Called("disk")
    /\ pc' = "net"
    /\ Frame

ProbeNet ==
    /\ pc = "net"
    /\ \E r \in NetReturns :
         /\ snap' = ApplyNet(snap, r)
         /\ rets' = [rets EXCEPT !["net"] = r]
    /\ Called("net")
    /\ UNCHANGED root
    /\ pc' = "render"
    /\ Frame

----------------------------------------------------------------------------
(* collectCmd.RunE, lines 140-192 *)

\* Variant of line 144: only a negative interval is single shot.
Streaming_ZeroInterval == interval >= 0

\* line 144: interval <= 0 is single shot
Streaming == interval > 0

\* lines 160-162
NormalizeCount(c) == IF c < 1 THEN 0 ELSE c

\* Variants of line 187: the bound compared with > instead of >=, and the
\* bound applied without the count > 0 guard.
CountReached_Late(n, c) == c > 0 /\ n > c

CountReached_NoGuard(n, c) == n >= c

\* line 187
CountReached(n, c) == c > 0 /\ n >= c

\* lines 149-156: what single-shot mode prints
SingleShotLines(js) == IF js THEN <<"json_indent">> ELSE <<"header", "row">>

\* lines 166-168: what streaming mode prints on entry
EntryLines(js) == IF js THEN <<>> ELSE <<"header">>

\* Variant of lines 183-185: the header is repeated before every row.
SampleLines_HeaderEach(js) == IF js THEN <<"json">> ELSE <<"header", "row">>

\* lines 180-185: what streaming mode prints for one sample
SampleLines(js) == IF js THEN <<"json">> ELSE <<"row">>

\* Variant of lines 163-170: the first sample is taken on entry, without
\* waiting for a tick.
Enter_ImmediateFirst ==
    /\ pc = "start"
    /\ IF ~Streaming
       THEN UNCHANGED <<count, out, i>>
       ELSE /\ count' = NormalizeCount(count)
            /\ out' = out \o EntryLines(jsonOut)
            /\ i' = 0
    /\ pc' = "host"
    /\ snap' = NewSnapshot
    /\ rets' = NoCalls
    /\ root' = <<>>
    /\ late' = {}
    /\ builds' = builds + 1
    /\ UNCHANGED <<interval, countFlag, jsonOut, goos, sysDrive, cancelled,
                   tickReady, ticks, err, rendered>>

\* lines 141-170: up to the call of collectOnce (single shot) or the first
\* wait of the loop (streaming)
Enter ==
    /\ pc = "start"
    /\ IF ~Streaming
       THEN /\ pc' = "host"
            /\ snap' = NewSnapshot
            /\ rets' = NoCalls
            /\ root' = <<>>
            /\ late' = {}
            /\ builds' = builds + 1
            /\ UNCHANGED <<count, out, i>>
       ELSE /\ count' = NormalizeCount(count)
            /\ out' = out \o EntryLines(jsonOut)
            /\ i' = 0
            /\ pc' = "select"
            /\ UNCHANGED <<snap, rets, builds, root, late>>
    /\ UNCHANGED <<interval, countFlag, jsonOut, goos, sysDrive, cancelled, tickReady,
                   ticks, err, rendered>>

\* Variant of lines 173-174: the case leaves the select but not the loop.
SelectDone_BreakOnly ==
    /\ pc = "select"
    /\ cancelled
    /\ pc' = "select"
    /\ UNCHANGED <<interval, count, countFlag, jsonOut, goos, sysDrive, cancelled,
                   tickReady, ticks, i, snap, rets, builds, out, root, late,
                   rendered, err>>

\* lines 172-174: the select takes the ctx.Done() case
SelectDone ==
    /\ pc = "select"
    /\ cancelled
    /\ pc' = "Stopped"
    /\ err' = "nil"
    /\ UNCHANGED <<interval, count, countFlag, jsonOut, goos, sysDrive, cancelled,
                   tickReady, ticks, i, snap, rets, builds, out, root, late,
                   rendered>>

\* Variant of lines 175-176: a tick is served wherever the run is, also
\* while a build is under way.
SelectTick_Reentrant ==
    /\ pc \in {"select", "render"} \cup Building
    /\ tickReady
    /\ tickReady' = FALSE
    /\ pc' = "host"
    /\ snap' = NewSnapshot
    /\ rets' = NoCalls
    /\ root' = <<>>
    /\ late' = {}
    /\ builds' = builds + 1
    /\ UNCHANGED <<interval, count, countFlag, jsonOut, goos, sysDrive, cancelled,
                   ticks, i, out, err, rendered>>

\* lines 175-176: the select takes the t.C case and collectOnce is entered.
\* A Go select with several ready cases picks one of them at random, so this
\* step is enabled whether or not ctx.Done() is ready too.
SelectTick ==
    /\ pc = "select"
    /\ tickReady
    /\ tickReady' = FALSE
    /\ pc' = "host"
    /\ snap' = NewSnapshot
    /\ rets' = NoCalls
    /\ root' = <<>>
    /\ late' = {}
    /\ builds' = builds + 1
    /\ UNCHANGED <<interval, count, countFlag, jsonOut, goos, sysDrive, cancelled,
                   ticks, i, out, err, rendered>>

\* lines 146-156 (single shot) and 177-189 (streaming): collectOnce has
\* returned; check its error, print, count
Render ==
    /\ pc = "render"
    /\ IF collectOnceErr # "nil"
       THEN /\ pc' = "Failed"
            /\ err' = collectOnceErr
            /\ UNCHANGED <<out, i>>
       ELSE IF ~Streaming
       THEN /\ out' = out \o SingleShotLines(jsonOut)
            /\ pc' = "SingleShot"
            /\ err' = "nil"
            /\ UNCHANGED i
       ELSE /\ out' = out \o SampleLines(jsonOut)
            /\ i' = i + 1
            /\ IF CountReached(i + 1, count)
               THEN pc' = "Exhausted" /\ err' = "nil"
               ELSE pc' = "select" /\ UNCHANGED err
    /\ UNCHANGED <<interval, count, countFlag, jsonOut, goos, sysDrive, cancelled,
                   tickReady, ticks, snap, rets, builds, root, rendered>>
    /\ late' = {}

----------------------------------------------------------------------------
(* Environment *)

\* line 163-164: the ticker runs from its creation to the deferred Stop
TickerRunning == Streaming /\ pc \notin ({"start"} \cup Terminal)

\* The runtime sends a tick into t.C without blocking; a tick that finds the
\* buffer full is dropped and changes nothing, so only delivered ticks are
\* steps.
Tick ==
    /\ TickerRunning
    /\ ~tickReady
    /\ ticks < MaxTicks
    /\ tickReady' = TRUE
    /\ ticks' = ticks + 1
    /\ UNCHANGED <<interval, count, countFlag, jsonOut, goos, sysDrive, pc, cancelled,
                   i, snap, rets, builds, out, err, root, late, rendered>>

\* line 141: an interrupt / SIGTERM closes ctx.Done()
Cancel ==
    /\ pc \notin ({"start"} \cup Terminal)
    /\ ~cancelled
    /\ cancelled' = TRUE
    /\ UNCHANGED <<interval, count, countFlag, jsonOut, goos, sysDrive, pc, tickReady,
                   ticks, i, snap, rets, builds, out, err, root, late, rendered>>

----------------------------------------------------------------------------

Init ==
    /\ interval \in Intervals
    /\ count \in Counts
    /\ countFlag = count
    /\ jsonOut \in BOOLEAN
    /\ goos \in GoosValues
    /\ sysDrive \in DriveValues
    /\ pc = "start"
    /\ cancelled = FALSE
    /\ tickReady = FALSE
    /\ ticks = 0
    /\ i = 0
    /\ snap = ZeroSnapshot
    /\ rets = NoCalls
    /\ builds = 0
    /\ out = <<>>
    /\ err = "running"
    /\ root = <<>>
    /\ late = {}
    /\ rendered = <<>>

Step ==
    \/ Enter
    \/ ProbeHost
    \/ ProbeCPU
    \/ ProbeLoad
    \/ ProbeMem
    \/ ProbeDisk
    \/ ProbeNet
    \/ Render
    \/ SelectDone
    \/ SelectTick

Next ==
    \/ Step
    \/ Tick
    \/ Cancel

Spec == Init /\ [][Next]_vars

\* The program keeps running (every provider call returns, the select takes a
\* ready case) and the ticker keeps firing.
FairSpec == Spec /\ WF_vars(Step) /\ WF_vars(Tick)

\* A select whose ctx.Done() case is ready again and again takes it in the
\* end: the runtime picks among the ready cases at random.
FairSelectSpec == FairSpec /\ SF_vars(SelectDone)

----------------------------------------------------------------------------
(* getRootPath on its own: every platform and every SystemDrive value up   *)
(* to MaxDriveLen characters.                                              *)

MaxDriveLen == 3

DriveChars == {"C", "D", ":", "\\"}

DriveStrings == UNION { [1..n -> DriveChars] : n \in 0..MaxDriveLen }

Idle ==
    /\ interval = 0 /\ count = 0 /\ countFlag = 0 /\ jsonOut = FALSE
    /\ cancelled = FALSE /\ tickReady = FALSE /\ ticks = 0 /\ i = 0
    /\ rets = NoCalls /\ builds = 0 /\ out = <<>> /\ err = "running"
    /\ late = {}

RootInit ==
    /\ Idle
    /\ goos \in GoosValues
    /\ sysDrive \in DriveStrings
    /\ pc = "resolve"
    /\ snap = ZeroSnapshot
    /\ root = <<>>
    /\ rendered = <<>>

\* line 120: root := getRootPath()
ResolveRoot ==
    /\ pc = "resolve"
    /\ root' = getRootPath(goos, sysDrive)
    /\ pc' = "resolved"
    /\ UNCHANGED <<interval, count, countFlag, jsonOut, goos, sysDrive, cancelled,
                   tickReady, ticks, i, snap, rets, builds, out, err, late,
                   rendered>>

RootSpec == RootInit /\ [][ResolveRoot]_vars

----------------------------------------------------------------------------
(* The two renderings of one Snapshot, for Snapshots collectOnce can build *)

SampleTimes == {5, 86400 + 3600 + 60 + 5}

SampleHosts ==
    { << <<>>, <<>>, 0 >>,
      << <<"h", "1">>, <<"l", "/", "u">>, 7 >>,
      << <<"h", "1">>, <<"w", "/", "m">>, 9 >> }

SampleCPUs == {0, 1234, 1267, 9996}

SampleLoads ==
    { << <<>>, <<>>, <<>> >>,
      << <<0>>, <<0>>, <<0>> >>,
      << <<150>>, <<125>>, <<75>> >>,
      << <<150>>, <<100>>, <<50>> >> }

SampleMems == { <<0, 0, 0>>, <<3, 8, 3750>> }

SampleDisks == { << <<>>, 0, 0, 0 >>, << <<"/">>, 250, 400, 6250 >> }

SampleNets == { <<0, 0>>, <<11, 22>> }

SampleSnapshots ==
    { [ Timestamp |-> t, Host |-> h[1], OS |-> h[2], UptimeSec |-> h[3],
        CPUPercent |-> c, Load1 |-> l[1], Load5 |-> l[2], Load15 |-> l[3],
        MemUsedMB |-> m[1], MemTotalMB |-> m[2], MemUsedPct |-> m[3],
        DiskPath |-> d[1], DiskUsedGB |-> d[2], DiskTotalGB |-> d[3],
        DiskUsedPct |-> d[4], NetBytesIn |-> n[1], NetBytesOut |-> n[2] ] :
      t \in SampleTimes, h \in SampleHosts, c \in SampleCPUs, l \in SampleLoads,
      m \in SampleMems, d \in SampleDisks, n \in SampleNets }

RenderInit ==
    /\ Idle
    /\ goos = "linux"
    /\ sysDrive = <<>>
    /\ pc = "snapshot"
    /\ snap \in SampleSnapshots
    /\ root = <<>>
    /\ rendered = <<>>

\* lines 155 / 184 and 152 / 181-182 applied to the same Snapshot
RenderBoth ==
    /\ pc = "snapshot"
    /\ rendered' = << humanRow(snap), StructuredRecord(snap) >>
    /\ pc' = "shown"
    /\ UNCHANGED <<interval, count, countFlag, jsonOut, goos, sysDrive, cancelled,
                   tickReady, ticks, i, snap, rets, builds, out, err, root,
                   late>>

RenderSpec == RenderInit /\ [][RenderBoth]_vars

TypeOK ==
    /\ pc \in {"start", "select", "render"} \cup Building \cup Terminal
    /\ i \in 0..MaxTicks
    /\ ticks \in 0..MaxTicks
    /\ err \in {"running", "nil", "error"}

----------------------------------------------------------------------------
(* Observations used by the properties *)

SampleKinds == {"row", "json", "json_indent"}

\* number of samples printed so far
Samples == Cardinality({k \in DOMAIN out : out[k] \in SampleKinds})

\* ticks taken out of t.C by the loop
Consumed == ticks - (IF tickReady THEN 1 ELSE 0)

\* collectOnce has been called and has returned
BuildDone == builds > 0 /\ pc \notin Building

Failed(p) == rets[p].called /\ (rets[p].err \/ rets[p].data = <<>>)

Succeeded(p) == rets[p].called /\ ~rets[p].err /\ rets[p].data # <<>>

----------------------------------------------------------------------------
(* C1: streaming with a count N > 0: never more than N samples; a run that *)
(* ends without a cancellation signal ends in Exhausted, with success,     *)
(* after exactly N samples, one per tick taken; and unless cancellation is *)
(* signalled the run does reach Exhausted.                                 *)

C1_ExactlyNThenExhausted ==
    /\ [](Streaming /\ countFlag > 0 => Samples <= countFlag)
    /\ [](Streaming /\ countFlag > 0 /\ ~cancelled /\ pc \in Terminal
            => /\ pc = "Exhausted"
               /\ err = "nil"
               /\ Samples = countFlag
               /\ Consumed = countFlag)
    /\ ((Streaming /\ countFlag > 0) ~> (cancelled \/ pc = "Exhausted"))

C1_Witness ==
    /\ Streaming /\ countFlag = MaxCount /\ ~cancelled
    /\ pc = "Exhausted" /\ err = "nil" /\ Samples = MaxCount

(* C2: streaming with count = 0: the loop never reaches Exhausted, it ends *)
(* with success, and once cancellation is signalled nothing more is        *)
(* printed.                                                                *)

C2_SilentAfterCancel ==
    [][ Streaming /\ countFlag = 0
          => /\ pc' # "Exhausted"
             /\ (pc' \in Terminal => err' = "nil")
             /\ (cancelled => out' = out) ]_vars

(* C3: at the wait point of the loop, when cancellation is signalled the   *)
(* tick branch is never taken: no build starts once cancellation is        *)
(* signalled.                                                              *)

C3_CancelPreferred ==
    [][ pc = "select" /\ cancelled => builds' = builds /\ pc' # "host" ]_vars

(* C4: in streaming mode the samples printed never outnumber the ticks the *)
(* loop has taken, which never outnumber the ticks fired; no sample exists *)
(* before the first tick, and each sample printed takes one more tick.     *)

C4_SamplesWithinTicks ==
    Streaming =>
        /\ Samples <= Consumed
        /\ Consumed <= ticks
        /\ builds = Consumed
        /\ (ticks = 0 => Samples = 0)

C4_Witness ==
    /\ Streaming /\ Samples = 2 /\ Consumed = 2 /\ pc = "select"

(* C5: whatever probes fail, the build ends without error and every field  *)
(* owned by a failed probe holds its zero value (load averages: absent);   *)
(* a single-shot run in which every probe fails still prints one sample,   *)
(* of an all-zero Snapshot, and succeeds.                                   *)

OwnedZero(p, s) ==
    CASE p = "host" -> s.Host = <<>> /\ s.OS = <<>> /\ s.UptimeSec = 0
      [] p = "cpu"  -> s.CPUPercent = 0
      [] p = "load" -> s.Load1 = <<>> /\ s.Load5 = <<>> /\ s.Load15 = <<>>
      [] p = "mem"  -> s.MemUsedMB = 0 /\ s.MemTotalMB = 0 /\ s.MemUsedPct = 0
      [] p = "disk" -> /\ s.DiskPath = <<>> /\ s.DiskUsedGB = 0
                       /\ s.DiskTotalGB = 0 /\ s.DiskUsedPct = 0
      [] p = "net"  -> s.NetBytesIn = 0 /\ s.NetBytesOut = 0

C5_ProbeFailuresTolerated ==
    /\ pc # "Failed" /\ err # "error"
    /\ \A p \in ProbeSet : Failed(p) => OwnedZero(p, snap)
    /\ BuildDone =>
         \A p \in ProbeSet : rets[p].called \/ (p = "load" /\ goos = "windows")
    /\ (~Streaming /\ pc \in Terminal /\ \A p \in ProbeSet : ~Succeeded(p))
         => /\ pc = "SingleShot" /\ err = "nil" /\ Samples = 1
            /\ snap = [ZeroSnapshot EXCEPT !.Timestamp = snap.Timestamp]

C5_Witness ==
    /\ ~Streaming /\ pc = "SingleShot" /\ Samples = 1
    /\ \A p \in ProbeSet : Failed(p)

(* C6: with interval <= 0 the run builds one Snapshot, prints one sample   *)
(* and ends, whatever the count and whether or not cancellation is         *)
(* signalled; the loop is never entered, no tick is taken and the count is *)
(* left alone.                                                             *)

C6_SingleShot ==
    /\ [](interval <= 0 =>
            /\ pc # "select" /\ ticks = 0 /\ ~tickReady /\ i = 0
            /\ count = countFlag
            /\ builds <= 1 /\ Samples <= 1
            /\ (pc \in Terminal =>
                  pc = "SingleShot" /\ err = "nil" /\ builds = 1 /\ Samples = 1))
    /\ ((interval <= 0) ~> (pc = "SingleShot"))

C6_Witness ==
    /\ interval = 0 /\ countFlag = MaxCount /\ cancelled
    /\ pc = "SingleShot" /\ builds = 1 /\ Samples = 1

(* C8: in streaming mode a count of zero or less is unbounded: the count   *)
(* used by the loop is 0, the loop never exits to Exhausted however many   *)
(* samples it has printed, and it ends only through cancellation.          *)

C8_NonPositiveCountUnbounded ==
    (Streaming /\ countFlag <= 0) =>
        /\ pc # "Exhausted"
        /\ (pc # "start" => count = 0)
        /\ (pc \in Terminal => pc = "Stopped" /\ cancelled /\ err = "nil")

C8_Witness ==
    /\ Streaming /\ countFlag < 0 /\ pc = "Stopped" /\ Samples = MaxTicks

(* C9: the two renderings are never mixed: in tabular mode the first line  *)
(* printed is the header and every later line is a row, in streaming mode  *)
(* the header being there from entry on; in JSON mode every line is a      *)
(* structured record.                                                      *)

C9_RenderingsNotMixed ==
    /\ jsonOut => \A k \in DOMAIN out : out[k] \in {"json", "json_indent"}
    /\ ~jsonOut =>
         /\ \A k \in DOMAIN out : out[k] = (IF k = 1 THEN "header" ELSE "row")
         /\ (Streaming /\ pc # "start" => Len(out) >= 1)
         /\ Samples = Len(out) - (IF out = <<>> THEN 0 ELSE 1)

C9_Witness ==
    /\ ~jsonOut /\ Streaming /\ out = <<"header", "row", "row">>

(* C10, as claimed: after a build the load averages are present whenever   *)
(* the platform supports them and absent whenever it does not.             *)

LoadsPresent(s) == s.Load1 # <<>> /\ s.Load5 # <<>> /\ s.Load15 # <<>>

LoadsAbsent(s) == s.Load1 = <<>> /\ s.Load5 = <<>> /\ s.Load15 = <<>>

C10_PresentIffSupported ==
    BuildDone =>
        /\ (goos # "windows" => LoadsPresent(snap))
        /\ (goos = "windows" => LoadsAbsent(snap))

(* C10, amended: after a build the load averages are present exactly when  *)
(* the platform supports them and the load probe returned a measurement    *)
(* without error, and absent otherwise; when present they are the values   *)
(* measured, never a default.                                              *)

C10_PresentIffMeasured ==
    BuildDone =>
        LET measured == goos # "windows" /\ Succeeded("load")
        IN  /\ (measured => /\ LoadsPresent(snap)
                            /\ snap.Load1 = <<rets["load"].data[1].Load1>>
                            /\ snap.Load5 = <<rets["load"].data[1].Load5>>
                            /\ snap.Load15 = <<rets["load"].data[1].Load15>>)
            /\ (~measured => LoadsAbsent(snap))
            /\ (goos = "windows" => ~rets["load"].called)

C10_Witness ==
    /\ BuildDone /\ goos # "windows" /\ Failed("load") /\ LoadsAbsent(snap)

(* C11: getRootPath depends only on the platform and SystemDrive: on       *)
(* windows it is C:\ for an empty variable, the variable with one          *)
(* backslash appended when it does not end in one and the variable itself  *)
(* when it does; on every other platform it is / whatever the variable.    *)

C11_RootPath ==
    pc = "resolved" =>
        /\ goos # "windows" => root = <<"/">>
        /\ (goos = "windows" /\ sysDrive = <<>>) => root = <<"C", ":", "\\">>
        /\ (goos = "windows" /\ sysDrive # <<>>
              /\ sysDrive[Len(sysDrive)] # "\\")
             => /\ Len(root) = Len(sysDrive) + 1
                /\ SubSeq(root, 1, Len(sysDrive)) = sysDrive
                /\ root[Len(root)] = "\\"
        /\ (goos = "windows" /\ sysDrive # <<>>
              /\ sysDrive[Len(sysDrive)] = "\\")
             => root = sysDrive

C11_Witness ==
    /\ pc = "resolved" /\ goos = "windows"
    /\ sysDrive = <<"D", ":">> /\ root = <<"D", ":", "\\">>

(* C12, as claimed: every field of the structured record can be recovered  *)
(* from the tabular row: two Snapshots with the same row have the same     *)
(* host, os, uptime, load, memory, disk and network fields, and            *)
(* percentages that agree to the precision of the row.                     *)

ExactKeys ==
    { "host", "os", "uptime_sec", "load5", "load15", "mem_used_mb",
      "mem_total_mb", "disk_path", "disk_used_gb", "disk_total_gb",
      "net_bytes_in", "net_bytes_out" }

Tenth(v) == SprintfFixed(v[1], 1)

SameInformation(a, b) ==
    /\ DOMAIN a = DOMAIN b
    /\ \A k \in DOMAIN a \cap ExactKeys : a[k] = b[k]
    /\ \A k \in {"cpu_percent", "mem_free_pct", "disk_used_pct"} :
         Tenth(a[k]) = Tenth(b[k])
    /\ "load1" \in DOMAIN a =>
         SprintfFixed(a["load1"][1], 2) = SprintfFixed(b["load1"][1], 2)

C12_RowCarriesRecord ==
    pc = "shown" =>
        \A t \in SampleSnapshots :
            humanRow(t) = rendered[1] => SameInformation(StructuredRecord(t), rendered[2])

(* C12, amended: every column of the tabular row agrees with the           *)
(* structured record of the same Snapshot: time of day, host and the       *)
(* memory and network counters exactly, the cpu, memory and disk           *)
(* percentages to one decimal, load1 to two decimals or a dash when the    *)
(* record has no load1.  os, uptime, load5, load15, disk path and disk     *)
(* sizes are in the record only.                                           *)

Within(shown, value, unit) ==
    /\ shown * unit - value <= unit \div 2
    /\ value - shown * unit <= unit \div 2

C12_RowAgreesWithRecord ==
    pc = "shown" =>
        LET r == rendered[1]
            j == rendered[2]
        IN  /\ Len(r) = 9
            /\ r[1][1] * 3600 + r[1][2] * 60 + r[1][3] = j["ts"][1] % 86400
            /\ Within(r[2], j["cpu_percent"][1], 10)
            /\ IF "load1" \in DOMAIN j
               THEN ~r[3].dash /\ Within(r[3].value, j["load1"][1], 1)
               ELSE r[3].dash
            /\ r[4] = j["mem_used_mb"] \o j["mem_total_mb"]
            /\ r[5] = <<>>
            /\ Within(r[6], j["mem_free_pct"][1], 10)
            /\ Within(r[7], j["disk_used_pct"][1], 10)
            /\ r[8] = j["net_bytes_in"] \o j["net_bytes_out"]
            /\ r[9] = j["host"]
            /\ JSONKeys \subseteq DOMAIN j
            /\ j["os"] = snap.OS /\ j["uptime_sec"] = <<snap.UptimeSec>>
            /\ j["disk_path"] = snap.DiskPath

C12_Witness ==
    /\ pc = "shown"
    /\ snap.MemUsedPct = 3750 /\ snap.DiskUsedPct = 6250 /\ snap.CPUPercent = 1267
    /\ snap.Load1 = <<150>> /\ snap.NetBytesIn = 11
    /\ rendered[1][2] = 127 /\ rendered[1][6] = 375 /\ rendered[1][7] = 625

(* C13, as claimed: a cancellation signalled during a build does not abort *)
(* it, and every probe that ran after the signal contributes only zero or  *)
(* absent fields.                                                          *)

C13_LateProbesContributeNothing ==
    /\ pc # "Failed"
    /\ \A p \in late : OwnedZero(p, snap)

(* C13, amended: a cancellation signalled during a build does not abort    *)
(* it: every remaining probe is still called in order and the Snapshot is  *)
(* returned without error; probes that completed before the signal keep    *)
(* their values, and a probe called after it contributes the values it     *)
(* measured when its call still returns data without error and zero or     *)
(* absent fields when its call fails.                                      *)

Owned(p, s) ==
    CASE p = "host" -> << s.Host, s.OS, s.UptimeSec >>
      [] p = "cpu"  -> << s.CPUPercent >>
      [] p = "load" -> << s.Load1, s.Load5, s.Load15 >>
      [] p = "mem"  -> << s.MemUsedMB, s.MemTotalMB, s.MemUsedPct >>
      [] p = "disk" -> << s.DiskPath, s.DiskUsedGB, s.DiskTotalGB, s.DiskUsedPct >>
      [] p = "net"  -> << s.NetBytesIn, s.NetBytesOut >>

\* what the Snapshot is to hold for the data d returned to probe p
Expected(p, d) ==
    CASE p = "host" -> << d.Hostname, d.OS \o <<"/">> \o d.Platform, d.Uptime >>
      [] p = "cpu"  -> << d >>
      [] p = "load" -> << <<d.Load1>>, <<d.Load5>>, <<d.Load15>> >>
      [] p = "mem"  -> << d.Used \div MiB, d.Total \div MiB, d.UsedPercent >>
      [] p = "disk" -> << root, (d.Used * Scale) \div GiB,
                          (d.Total * Scale) \div GiB, d.UsedPercent >>
      [] p = "net"  -> << d.BytesRecv, d.BytesSent >>

Position(p) == CHOOSE k \in 1..Len(Probes) : Probes[k] = p

After(p) == IF Position(p) = Len(Probes) THEN "render" ELSE Probes[Position(p) + 1]

C13_LateProbesApplied ==
    /\ [](/\ pc # "Failed"
          /\ \A p \in late :
               /\ rets[p].called
               /\ Succeeded(p) => Owned(p, snap) = Expected(p, rets[p].data[1])
               /\ ~Succeeded(p) => OwnedZero(p, snap))
    /\ [][ (cancelled /\ pc \in Building) =>
             /\ pc' \in {pc, After(pc)}
             /\ \A q \in ProbeSet \ {pc} : Owned(q, snap') = Owned(q, snap)
             /\ pc' # pc => late' \subseteq late \cup {pc} ]_vars

C13_Witness ==
    /\ pc = "render" /\ cancelled
    /\ \E p \in late : Succeeded(p) /\ ~OwnedZero(p, snap)
    /\ \E p \in late : Failed(p)
    /\ \E q \in ProbeSet \ late : Succeeded(q) /\ ~OwnedZero(q, snap)

(* C14: builds never overlap: at most one build is unfinished, the loop is *)
(* at its wait point only when every build started has been rendered, and *)
(* a tick that fires during a build starts nothing.                        *)

C14_BuildsSequential ==
    /\ [](/\ builds - Samples \in {0, 1}
          /\ (builds = Samples + 1) <=> (pc \in Building \cup {"render"})
          /\ pc = "select" => (builds = Samples /\ i = Samples))
    /\ [][ ticks' # ticks =>
             pc' = pc /\ builds' = builds /\ snap' = snap /\ out' = out ]_vars

C14_Witness ==
    /\ pc \in Building /\ tickReady /\ builds = 2 /\ Samples = 1

(* C15: in streaming mode, once cancellation is signalled the run ends,    *)
(* with success, whatever the count and whenever the ticks fire.           *)

C15_CancelTerminates ==
    (Streaming /\ cancelled) ~> (pc \in {"Stopped", "Exhausted"} /\ err = "nil")

C15_Witness ==
    /\ Streaming /\ cancelled /\ countFlag = 0 /\ pc = "Stopped" /\ err = "nil"
    /\ Samples >= 1

(* C16: in streaming mode with a count N > 0 no more than N samples are    *)
(* ever printed, whatever ticks, signals and probe failures occur; the     *)
(* counter equals the number of samples printed, goes up by exactly one    *)
(* with each of them and never goes down.                                  *)

C16_CounterBounded ==
    /\ [](Streaming /\ countFlag > 0 => Samples <= countFlag /\ i <= countFlag)
    /\ [](Streaming => i = Samples)
    /\ [][ Streaming =>
             \/ i' = i /\ Samples' = Samples
             \/ i' = i + 1 /\ Samples' = Samples + 1 ]_vars

C16_Witness ==
    /\ Streaming /\ countFlag = MaxCount /\ i = MaxCount /\ pc = "Exhausted"
    /\ cancelled /\ Failed("cpu")

(* C17: probes are independent: a probe step changes only the fields of    *)
(* its own probe, and whichever other probes failed, the fields of a probe *)
(* that succeeded are the values the provider returned for it.             *)

C17_ProbesIndependent ==
    /\ [](\A p \in ProbeSet :
            Succeeded(p) => Owned(p, snap) = Expected(p, rets[p].data[1]))
    /\ [][ (pc \in Building /\ pc' # pc) =>
             /\ snap'.Timestamp = snap.Timestamp
             /\ \A q \in ProbeSet \ {pc} :
                  Owned(q, snap') = Owned(q, snap) /\ rets'[q] = rets[q] ]_vars

C17_Witness ==
    /\ pc = "render"
    /\ Succeeded("host") /\ Failed("cpu") /\ Succeeded("mem")
    /\ Failed("disk") /\ Failed("net")
    /\ snap.MemUsedMB = 3 /\ snap.UptimeSec = 7

(* C18: once the disk probe has run, DiskPath is the resolved root path    *)
(* exactly when the probe succeeded; when it failed DiskPath is empty and  *)
(* the disk sizes and percentage are zero, although a root path was        *)
(* resolved.                                                               *)

C18_DiskPathOnlyOnSuccess ==
    /\ rets["disk"].called =>
         /\ root # <<>>
         /\ root \in {<<"/">>, <<"C", ":", "\\">>, <<"D", ":", "\\">>}
         /\ (snap.DiskPath = root) <=> Succeeded("disk")
         /\ Failed("disk") => OwnedZero("disk", snap)
    /\ ~rets["disk"].called => snap.DiskPath = <<>>

C18_Witness ==
    /\ BuildDone /\ Failed("disk") /\ goos = "windows"
    /\ root = <<"D", ":", "\\">> /\ snap.DiskPath = <<>>

====
